---- MODULE Spec2Model ----
(***************************************************************************)
(* Compounding balance and ledger engine of the lending back office        *)
(* (backend/crud.py).  Money is an integer number of cents; an instant is  *)
(* an integer number of days on the MYT clock; NULL stands for None.       *)
(***************************************************************************)
EXTENDS Integers, Sequences, FiniteSets, TLC

VARIABLES customers, loans, repayments, events, bank, loan_seq, repayment_seq, now, last, nops,
          sessions

vars == <<customers, loans, repayments, events, bank, loan_seq, repayment_seq, now, last, nops,
          sessions>>

\* ---------------------------------------------------------------- bounds
\* the clock stops at MaxNow days; at most MaxOps accepted mutating calls
MaxNow == 60
MaxOps == 3

\* ------------------------------------------------------ program constants
\* COMPOUND_INTEREST_RATE = 0.20, as a percentage
COMPOUND_INTEREST_RATE == 20
\* COMPOUND_INTERVAL = timedelta(days=30), in days
COMPOUND_INTERVAL == 30

NULL == -1

\* reference_type of a bank transaction that refers to no loan or repayment
NoReference == "none"
\* the code _generate_loan_code gives a loan; "" is a loan without one
GeneratedCode == "LN"

CustomerIds == {1}

\* --------------------------------------------------------------- inputs
TickSteps == {30}
LoanAmounts == {5, 10}
RepaymentAmounts == {-6, 6, 12}
BalanceTargets == {5}
AdjustAmounts == {-20}
BankAmounts == {7}
PastDates == {0}
NextCompoundInputs == {5}

\* ------------------------------------------------------------ primitives
Max(a, b) == IF a >= b THEN a ELSE b

Abs(a) == IF a >= 0 THEN a ELSE -a

\* round(x, 2) of the product cents * (100 + rate) / 100: nearest cent
\* (the fraction is a multiple of 0.2 cent for rate 20, never a tie)
RoundDiv(n, d) == (2 * n + d) \div (2 * d)

\* _round_amount: round(float(value or 0.0), 2); a value already in whole
\* cents is its own rounding
_round_amount(value) == RoundDiv(value * 100, 100)

\* ensure_myt_datetime: same instant on the MYT clock, None stays None
ensure_myt_datetime(value) == IF value = NULL THEN NULL ELSE value

_initial_compounded_amount(loan_amount) ==
    RoundDiv(Max(loan_amount, 0) * (100 + COMPOUND_INTEREST_RATE), 100)

\* ---------------------------------------------------- balance event ledger
_record_balance_event(evs, cid, customer, event_type, change_amount, event_time, t, meta) ==
    IF Abs(change_amount) <= 0
    THEN evs
    ELSE Append(evs, [id |-> Len(evs) + 1,
                      customer_id |-> cid,
                      event_type |-> event_type,
                      event_time |-> IF ensure_myt_datetime(event_time) # NULL
                                     THEN ensure_myt_datetime(event_time) ELSE t,
                      change_amount |-> _round_amount(change_amount),
                      balance_after |-> _round_amount(Max(customer.projected_balance, 0)),
                      previous_balance |-> meta])

\* ------------------------------------------------- compounding calculator
\* one period per call: an if where the code has a while
compound_loop_once(customer, projected, evs, cid, t, session, updated) ==
    IF customer.next_compound_at # NULL /\ customer.next_compound_at <= t
    THEN LET grown == RoundDiv(projected * (100 + COMPOUND_INTEREST_RATE), 100)
             c1 == [customer EXCEPT !.projected_balance = grown]
             evs1 == IF session /\ grown - projected > 0
                     THEN _record_balance_event(evs, cid, c1, "compound_growth",
                                                grown - projected, customer.next_compound_at,
                                                t, NULL)
                     ELSE evs
         IN  [customer |-> [c1 EXCEPT !.next_compound_at = @ + COMPOUND_INTERVAL],
              projected |-> grown, events |-> evs1, updated |-> TRUE]
    ELSE [customer |-> customer, projected |-> projected, events |-> evs, updated |-> updated]

\* the next boundary counted from now instead of from the boundary crossed
compound_loop_from_now(customer, projected, evs, cid, t, session, updated) ==
    IF customer.next_compound_at # NULL /\ customer.next_compound_at <= t
    THEN LET grown == RoundDiv(projected * (100 + COMPOUND_INTEREST_RATE), 100)
             c1 == [customer EXCEPT !.projected_balance = grown]
             evs1 == IF session /\ grown - projected > 0
                     THEN _record_balance_event(evs, cid, c1, "compound_growth",
                                                grown - projected, customer.next_compound_at,
                                                t, NULL)
                     ELSE evs
         IN  [customer |-> [c1 EXCEPT !.next_compound_at = t + COMPOUND_INTERVAL],
              projected |-> grown, events |-> evs1, updated |-> TRUE]
    ELSE [customer |-> customer, projected |-> projected, events |-> evs, updated |-> updated]

\* the while loop of _apply_compound_growth; session is TRUE when the caller
\* passes its session, so that growth events are recorded
RECURSIVE compound_loop(_, _, _, _, _, _, _)
compound_loop(customer, projected, evs, cid, t, session, updated) ==
    IF customer.next_compound_at # NULL /\ customer.next_compound_at <= t
    THEN LET previous_balance == projected
             grown == RoundDiv(projected * (100 + COMPOUND_INTEREST_RATE), 100)
             increment == grown - previous_balance
             c1 == [customer EXCEPT !.projected_balance = grown]
             evs1 == IF session /\ increment > 0
                     THEN _record_balance_event(evs, cid, c1, "compound_growth",
                                                increment, customer.next_compound_at, t, NULL)
                     ELSE evs
             c2 == [c1 EXCEPT !.next_compound_at = customer.next_compound_at + COMPOUND_INTERVAL]
         IN  compound_loop(c2, grown, evs1, cid, t, session, TRUE)
    ELSE [customer |-> customer, projected |-> projected, events |-> evs, updated |-> updated]

_apply_compound_growth(customer, t, evs, cid, session) ==
    LET projected == Max(customer.projected_balance, 0)
        nca == ensure_myt_datetime(customer.next_compound_at)
    IN  IF projected <= 0
        THEN [customer |-> [customer EXCEPT !.projected_balance = 0,
                                            !.next_compound_at = NULL],
              events |-> evs,
              updated |-> (customer.projected_balance # 0
                           \/ customer.next_compound_at # NULL)]
        ELSE LET c0 == IF nca = NULL
                       THEN [customer EXCEPT !.next_compound_at = t + COMPOUND_INTERVAL]
                       ELSE [customer EXCEPT !.next_compound_at = nca]
                 \* after the loop: the balance written back when it differs
                 written(r) ==
                     [customer |-> IF Abs(r.projected - r.customer.projected_balance) > 0
                                   THEN [r.customer EXCEPT !.projected_balance = r.projected]
                                   ELSE r.customer,
                      events |-> r.events,
                      updated |-> (r.updated
                                   \/ Abs(r.projected - r.customer.projected_balance) > 0)]
             IN  written(compound_loop(c0, projected, evs, cid, t, session, nca = NULL))

\* the delta applied without the floor at zero
_adjust_projected_balance_unfloored(customer, delta, t, evs, cid, session) ==
    IF Abs(delta) <= 0
    THEN [customer |-> customer, events |-> evs, updated |-> FALSE]
    ELSE LET applied(g, projected) ==
                 [customer |-> [g.customer EXCEPT
                                    !.projected_balance = projected,
                                    !.next_compound_at =
                                        IF projected <= 0 THEN NULL
                                        ELSE IF @ = NULL THEN t + COMPOUND_INTERVAL ELSE @],
                  events |-> g.events,
                  updated |-> TRUE]
             grown(g) == applied(g, _round_amount(Max(g.customer.projected_balance, 0) + delta))
         IN  grown(_apply_compound_growth(customer, t, evs, cid, session))

_adjust_projected_balance(customer, delta, t, evs, cid, session) ==
    IF Abs(delta) <= 0
    THEN [customer |-> customer, events |-> evs, updated |-> FALSE]
    ELSE LET \* the schedule cleared at zero, started when there was none
                 scheduled(g, projected, c1, u1, nca) ==
                     IF projected <= 0
                     THEN [customer |-> [c1 EXCEPT !.next_compound_at = NULL],
                           events |-> g.events,
                           updated |-> (u1 \/ c1.next_compound_at # NULL)]
                     ELSE [customer |-> [c1 EXCEPT !.next_compound_at =
                                            IF nca = NULL THEN t + COMPOUND_INTERVAL ELSE nca],
                           events |-> g.events,
                           updated |-> (u1 \/ nca = NULL)]
                 applied(g, projected) ==
                     scheduled(g, projected,
                               IF Abs(projected - g.customer.projected_balance) > 0
                               THEN [g.customer EXCEPT !.projected_balance = projected]
                               ELSE g.customer,
                               g.updated \/ Abs(projected - g.customer.projected_balance) > 0,
                               ensure_myt_datetime(g.customer.next_compound_at))
                 grown(g) ==
                     applied(g, _round_amount(Max(Max(g.customer.projected_balance, 0)
                                                  + delta, 0)))
         IN  grown(_apply_compound_growth(customer, t, evs, cid, session))

\* the actual principal applied as the delta, the recorded one not subtracted
_refresh_compounded_balance_absolute(customer, actual_balance, t, evs, cid, session) ==
    LET delta == actual_balance
    IN  IF Abs(delta) > 0
        THEN LET adjusted(a) ==
                     [customer |-> [a.customer EXCEPT !.last_principal = actual_balance],
                      events |-> a.events,
                      updated |-> TRUE]
             IN  adjusted(_adjust_projected_balance(customer, delta, t, evs, cid, session))
        ELSE _apply_compound_growth(customer, t, evs, cid, session)

\* a negative actual principal taken as zero
_refresh_compounded_balance_nonnegative(customer, actual_balance, t, evs, cid, session) ==
    LET recorded == customer.last_principal
        delta == Max(actual_balance, 0) - recorded
    IN  IF Abs(delta) > 0
        THEN LET adjusted(a) ==
                     [customer |-> [a.customer EXCEPT
                                        !.last_principal = Max(actual_balance, 0)],
                      events |-> a.events,
                      updated |-> TRUE]
             IN  adjusted(_adjust_projected_balance(customer, delta, t, evs, cid, session))
        ELSE _apply_compound_growth(customer, t, evs, cid, session)

_refresh_compounded_balance(customer, actual_balance, t, evs, cid, session) ==
    LET recorded == customer.last_principal
        delta == actual_balance - recorded
    IN  IF Abs(delta) > 0
        THEN LET adjusted(a) ==
                     [customer |-> [a.customer EXCEPT !.last_principal = actual_balance],
                      events |-> a.events,
                      updated |-> TRUE]
             IN  adjusted(_adjust_projected_balance(customer, delta, t, evs, cid, session))
        ELSE _apply_compound_growth(customer, t, evs, cid, session)

\* ------------------------------------------------- bank transaction ledger
\* the oldest row read instead of the newest (ORDER BY id ASC)
get_bank_balance_oldest(bk) ==
    IF Len(bk) = 0 THEN 0 ELSE _round_amount(bk[1].balance_after)

get_bank_balance(bk) ==
    IF Len(bk) = 0 THEN 0 ELSE _round_amount(bk[Len(bk)].balance_after)

\* the new row written over the latest row instead of after it
record_bank_transaction_overwriting(bk, transaction_type, amount, reference_type, reference_id, customer_id) ==
    LET normalized_amount == _round_amount(amount)
        entry == [id |-> Max(Len(bk), 1),
                  transaction_type |-> transaction_type,
                  amount |-> normalized_amount,
                  balance_after |-> _round_amount(get_bank_balance(bk) + normalized_amount),
                  reference_type |-> reference_type,
                  reference_id |-> reference_id,
                  customer_id |-> customer_id]
    IN  IF Abs(normalized_amount) <= 0
        THEN bk
        ELSE IF Len(bk) = 0 THEN <<entry>> ELSE [bk EXCEPT ![Len(bk)] = entry]

record_bank_transaction(bk, transaction_type, amount, reference_type, reference_id, customer_id) ==
    LET normalized_amount == _round_amount(amount)
    IN  IF Abs(normalized_amount) <= 0
        THEN bk
        ELSE Append(bk, [id |-> Len(bk) + 1,
                         transaction_type |-> transaction_type,
                         amount |-> normalized_amount,
                         balance_after |-> _round_amount(get_bank_balance(bk) + normalized_amount),
                         reference_type |-> reference_type,
                         reference_id |-> reference_id,
                         customer_id |-> customer_id])

\* ------------------------------------------------------ loan balance guard
RECURSIVE SumOver(_, _)
SumOver(f, S) ==
    IF S = {} THEN 0
    ELSE LET x == CHOOSE y \in S : TRUE IN f[x] + SumOver(f, S \ {x})

\* sum(abs(repayment_amount)) over the repayments of the loan, one excluded
PaidTotal(reps, loan_id, exclude_repayment_id) ==
    LET rows == {r \in DOMAIN reps : reps[r].loan_id = loan_id /\ r # exclude_repayment_id}
    IN  SumOver([r \in rows |-> Abs(reps[r].repayment_amount)], rows)

_loan_remaining_compounded_balance(reps, loan_id, loan, exclude_repayment_id) ==
    LET base_amount == _initial_compounded_amount(loan.loan_amount)
        remaining == base_amount - PaidTotal(reps, loan_id, exclude_repayment_id)
    IN  Max(_round_amount(remaining), 0)

\* TRUE when the guard lets the amount through, FALSE when it raises
_ensure_repayment_within_loan_balance(reps, loan_id, loan, amount, exclude_repayment_id) ==
    LET normalized_amount == Max(_round_amount(Abs(amount)), 0)
        allowed == _loan_remaining_compounded_balance(reps, loan_id, loan, exclude_repayment_id)
    IN  /\ ~(allowed <= 0 /\ normalized_amount > 0)
        /\ ~(normalized_amount - allowed > 0)

\* ------------------------------------------------------------ operations
\* the rows a session sees: every operation maps a db record to the db
\* record it commits (ok = FALSE: it raised before commit and rolled back)
DB == [customers |-> customers, loans |-> loans, repayments |-> repayments,
       events |-> events, bank |-> bank,
       loan_seq |-> loan_seq, repayment_seq |-> repayment_seq]

Drop(f, x) == [y \in DOMAIN f \ {x} |-> f[y]]

Put(f, x, v) == [y \in DOMAIN f \cup {x} |-> IF y = x THEN v ELSE f[y]]

\* the event carrying the markup over the cash lent, not the compounded amount
create_loan_markup_event(db, cid, loan_amount, loan_date, t) ==
    LET customer == db.customers[cid]
        date == ensure_myt_datetime(loan_date)
        addition == _initial_compounded_amount(loan_amount)
        id == db.loan_seq + 1
        stored(c1, evs) ==
            [ok |-> TRUE, err |-> "",
             db |-> [db EXCEPT !.customers[cid] = c1,
                               !.loans = Put(@, id, [customer_id |-> cid,
                                                     loan_amount |-> loan_amount,
                                                     loan_date |-> date,
                                                     loan_code |-> GeneratedCode]),
                               !.loan_seq = id,
                               !.events = _record_balance_event(evs, cid, c1,
                                                                "loan_disbursement",
                                                                addition
                                                                    - _round_amount(loan_amount),
                                                                date, t, NULL),
                               !.bank = record_bank_transaction(
                                            db.bank, "loan_disbursement",
                                            -_round_amount(loan_amount), "loan", id, cid)]]
        adjusted(a) == stored([a.customer EXCEPT !.last_principal = @ + addition], a.events)
    IN  adjusted(_adjust_projected_balance(customer, addition, t, db.events, cid, TRUE))

\* the cash lent added to the balance, the compounding rate left out
create_loan_uncompounded(db, cid, loan_amount, loan_date, t) ==
    LET customer == db.customers[cid]
        date == ensure_myt_datetime(loan_date)
        addition == _round_amount(Max(loan_amount, 0))
        id == db.loan_seq + 1
        stored(c1, evs) ==
            [ok |-> TRUE, err |-> "",
             db |-> [db EXCEPT !.customers[cid] = c1,
                               !.loans = Put(@, id, [customer_id |-> cid,
                                                     loan_amount |-> loan_amount,
                                                     loan_date |-> date,
                                                     loan_code |-> GeneratedCode]),
                               !.loan_seq = id,
                               !.events = _record_balance_event(evs, cid, c1,
                                                                "loan_disbursement", addition,
                                                                date, t, NULL),
                               !.bank = record_bank_transaction(
                                            db.bank, "loan_disbursement",
                                            -_round_amount(loan_amount), "loan", id, cid)]]
        adjusted(a) == stored([a.customer EXCEPT !.last_principal = @ + addition], a.events)
    IN  adjusted(_adjust_projected_balance(customer, addition, t, db.events, cid, TRUE))

create_loan(db, cid, loan_amount, loan_date, t) ==
    LET customer == db.customers[cid]
        date == ensure_myt_datetime(loan_date)
        addition == _initial_compounded_amount(loan_amount)
        id == db.loan_seq + 1
        stored(c1, evs) ==
            [ok |-> TRUE, err |-> "",
             db |-> [db EXCEPT !.customers[cid] = c1,
                               !.loans = Put(@, id, [customer_id |-> cid,
                                                     loan_amount |-> loan_amount,
                                                     loan_date |-> date,
                                                     loan_code |-> GeneratedCode]),
                               !.loan_seq = id,
                               !.events = _record_balance_event(evs, cid, c1,
                                                                "loan_disbursement", addition,
                                                                date, t, NULL),
                               !.bank = record_bank_transaction(
                                            db.bank, "loan_disbursement",
                                            -_round_amount(loan_amount), "loan", id, cid)]]
        adjusted(a) == stored([a.customer EXCEPT !.last_principal = @ + addition], a.events)
    IN  adjusted(_adjust_projected_balance(customer, addition, t, db.events, cid, TRUE))

\* the guard run after the balance has been written
create_repayment_guard_late(db, cid, loan_id, repayment_amount, repayment_date, t) ==
    LET customer == db.customers[cid]
        deduction == -Abs(repayment_amount)
        stored(c1, evs) ==
            IF ~_ensure_repayment_within_loan_balance(db.repayments, loan_id,
                                                      db.loans[loan_id], repayment_amount, NULL)
            THEN [ok |-> FALSE, err |-> "guard",
                  db |-> [db EXCEPT !.customers[cid] = c1, !.events = evs]]
            ELSE [ok |-> TRUE, err |-> "",
                  db |-> [db EXCEPT !.customers[cid] = c1,
                                    !.events = evs,
                                    !.repayment_seq = @ + 1,
                                    !.repayments = Put(@, db.repayment_seq + 1,
                                                       [customer_id |-> cid,
                                                        loan_id |-> loan_id,
                                                        repayment_amount |-> repayment_amount,
                                                        repayment_date |-> repayment_date])]]
        adjusted(a) == stored([a.customer EXCEPT !.last_principal = @ + deduction], a.events)
    IN  IF loan_id \notin DOMAIN db.loans
        THEN [ok |-> FALSE, err |-> "loan_not_found", db |-> db]
        ELSE adjusted(_adjust_projected_balance(customer, deduction, t, db.events, cid, TRUE))

create_repayment(db, cid, loan_id, repayment_amount, repayment_date, t) ==
    IF loan_id \notin DOMAIN db.loans
    THEN [ok |-> FALSE, err |-> "loan_not_found", db |-> db]
    ELSE IF ~_ensure_repayment_within_loan_balance(db.repayments, loan_id, db.loans[loan_id],
                                                   repayment_amount, NULL)
    THEN [ok |-> FALSE, err |-> "guard", db |-> db]
    ELSE
    LET customer == db.customers[cid]
        date == ensure_myt_datetime(repayment_date)
        deduction == -Abs(repayment_amount)
        id == db.repayment_seq + 1
        stored(c1, evs, previous_balance) ==
            [ok |-> TRUE, err |-> "",
             db |-> [db EXCEPT !.customers[cid] = c1,
                               !.repayments = Put(@, id, [customer_id |-> cid,
                                                          loan_id |-> loan_id,
                                                          repayment_amount |-> repayment_amount,
                                                          repayment_date |-> date]),
                               !.repayment_seq = id,
                               !.events = _record_balance_event(evs, cid, c1, "repayment",
                                                                deduction, date, t,
                                                                previous_balance),
                               !.bank = record_bank_transaction(
                                            db.bank, "repayment_receipt",
                                            _round_amount(Abs(repayment_amount)),
                                            "repayment", id, cid)]]
        adjusted(a, previous_balance) ==
            stored([a.customer EXCEPT !.last_principal = @ + deduction], a.events,
                   previous_balance)
        grown(g) ==
            adjusted(_adjust_projected_balance(g.customer, deduction, t, g.events, cid, TRUE),
                     _round_amount(Max(g.customer.projected_balance, 0)))
    IN  grown(_apply_compound_growth(customer, t, db.events, cid, TRUE))

update_loan(db, loan_id, new_amount, t) ==
    IF loan_id \notin DOMAIN db.loans
    THEN [ok |-> FALSE, err |-> "loan_not_found", db |-> db]
    ELSE
    LET loan == db.loans[loan_id]
        cid == loan.customer_id
        customer == db.customers[cid]
        previous_cash_amount == loan.loan_amount
        old_effect == _initial_compounded_amount(loan.loan_amount)
        new_effect == _initial_compounded_amount(new_amount)
        delta == new_effect - old_effect
        cash_delta == new_amount - previous_cash_amount
        bk == IF Abs(cash_delta) > 0
              THEN record_bank_transaction(db.bank, "loan_adjustment",
                                           -_round_amount(cash_delta), "loan", loan_id, cid)
              ELSE db.bank
        stored(c1, evs) ==
            [ok |-> TRUE, err |-> "",
             db |-> [db EXCEPT !.customers[cid] = c1,
                               !.loans[loan_id].loan_amount = new_amount,
                               !.events = evs,
                               !.bank = bk]]
        adjusted(a, c1) ==
            stored(c1, _record_balance_event(a.events, cid, c1, "loan_adjustment", delta,
                                             t, t, NULL))
        changed(a) == adjusted(a, [a.customer EXCEPT !.last_principal = @ + delta])
    IN  IF Abs(delta) > 0
        THEN changed(_adjust_projected_balance(customer, delta, t, db.events, cid, TRUE))
        ELSE stored(customer, db.events)

\* the guard run with the edited repayment still counted as paid
update_repayment_counts_itself(db, repayment_id, amount, t) ==
    IF repayment_id \notin DOMAIN db.repayments
    THEN [ok |-> FALSE, err |-> "repayment_not_found", db |-> db]
    ELSE IF db.repayments[repayment_id].loan_id # NULL
            /\ db.repayments[repayment_id].loan_id \notin DOMAIN db.loans
    THEN [ok |-> FALSE, err |-> "loan_not_found", db |-> db]
    ELSE
    LET repayment == db.repayments[repayment_id]
        cid == repayment.customer_id
        customer == db.customers[cid]
        previous_cash_amount == repayment.repayment_amount
        new_amount == Abs(amount)
        old_amount == Abs(repayment.repayment_amount)
        guarded == repayment.loan_id # NULL /\ Abs(new_amount - old_amount) > 0
        delta == (-new_amount) - (-old_amount)
        cash_delta == new_amount - previous_cash_amount
        bk == IF Abs(cash_delta) > 0
              THEN record_bank_transaction(db.bank, "repayment_adjustment",
                                           _round_amount(cash_delta),
                                           "repayment", repayment_id, cid)
              ELSE db.bank
        stored(c1, evs) ==
            [ok |-> TRUE, err |-> "",
             db |-> [db EXCEPT !.customers[cid] = c1,
                               !.repayments[repayment_id].repayment_amount = new_amount,
                               !.events = evs,
                               !.bank = bk]]
        adjusted(a, c1) ==
            stored(c1, _record_balance_event(a.events, cid, c1, "repayment_adjustment", delta,
                                             t, t, NULL))
        changed(a) == adjusted(a, [a.customer EXCEPT !.last_principal = @ + delta])
    IN  IF guarded /\ ~_ensure_repayment_within_loan_balance(
                           db.repayments, repayment.loan_id, db.loans[repayment.loan_id],
                           new_amount, NULL)
        THEN [ok |-> FALSE, err |-> "guard", db |-> db]
        ELSE IF Abs(delta) > 0
        THEN changed(_adjust_projected_balance(customer, delta, t, db.events, cid, TRUE))
        ELSE stored(customer, db.events)

update_repayment(db, repayment_id, amount, t) ==
    IF repayment_id \notin DOMAIN db.repayments
    THEN [ok |-> FALSE, err |-> "repayment_not_found", db |-> db]
    ELSE IF db.repayments[repayment_id].loan_id # NULL
            /\ db.repayments[repayment_id].loan_id \notin DOMAIN db.loans
    THEN [ok |-> FALSE, err |-> "loan_not_found", db |-> db]
    ELSE
    LET repayment == db.repayments[repayment_id]
        cid == repayment.customer_id
        customer == db.customers[cid]
        previous_cash_amount == repayment.repayment_amount
        new_amount == Abs(amount)
        old_amount == Abs(repayment.repayment_amount)
        guarded == repayment.loan_id # NULL /\ Abs(new_amount - old_amount) > 0
        delta == (-new_amount) - (-old_amount)
        cash_delta == new_amount - previous_cash_amount
        bk == IF Abs(cash_delta) > 0
              THEN record_bank_transaction(db.bank, "repayment_adjustment",
                                           _round_amount(cash_delta),
                                           "repayment", repayment_id, cid)
              ELSE db.bank
        stored(c1, evs) ==
            [ok |-> TRUE, err |-> "",
             db |-> [db EXCEPT !.customers[cid] = c1,
                               !.repayments[repayment_id].repayment_amount = new_amount,
                               !.events = evs,
                               !.bank = bk]]
        adjusted(a, c1) ==
            stored(c1, _record_balance_event(a.events, cid, c1, "repayment_adjustment", delta,
                                             t, t, NULL))
        changed(a) == adjusted(a, [a.customer EXCEPT !.last_principal = @ + delta])
    IN  IF guarded /\ ~_ensure_repayment_within_loan_balance(
                           db.repayments, repayment.loan_id, db.loans[repayment.loan_id],
                           new_amount, repayment_id)
        THEN [ok |-> FALSE, err |-> "guard", db |-> db]
        ELSE IF Abs(delta) > 0
        THEN changed(_adjust_projected_balance(customer, delta, t, db.events, cid, TRUE))
        ELSE stored(customer, db.events)

\* the cash lent written off, the compounding rate left out
delete_loan_cash_only(db, loan_id, t) ==
    IF loan_id \notin DOMAIN db.loans
    THEN [ok |-> FALSE, err |-> "loan_not_found", db |-> db]
    ELSE
    LET loan == db.loans[loan_id]
        cid == loan.customer_id
        customer == db.customers[cid]
        deduction == -_round_amount(Max(loan.loan_amount, 0))
        stored(c1, evs) ==
            [ok |-> TRUE, err |-> "",
             db |-> [db EXCEPT !.customers[cid] = c1,
                               !.loans = Drop(@, loan_id),
                               !.events = _record_balance_event(evs, cid, c1, "loan_writeoff",
                                                                deduction, t, t, NULL),
                               !.bank = record_bank_transaction(
                                            db.bank, "loan_reversal",
                                            _round_amount(Abs(loan.loan_amount)),
                                            "loan", loan_id, cid)]]
        adjusted(a) == stored([a.customer EXCEPT !.last_principal = @ + deduction], a.events)
    IN  adjusted(_adjust_projected_balance(customer, deduction, t, db.events, cid, TRUE))

delete_loan(db, loan_id, t) ==
    IF loan_id \notin DOMAIN db.loans
    THEN [ok |-> FALSE, err |-> "loan_not_found", db |-> db]
    ELSE
    LET loan == db.loans[loan_id]
        cid == loan.customer_id
        customer == db.customers[cid]
        deduction == -_initial_compounded_amount(loan.loan_amount)
        stored(c1, evs) ==
            [ok |-> TRUE, err |-> "",
             db |-> [db EXCEPT !.customers[cid] = c1,
                               !.loans = Drop(@, loan_id),
                               !.events = _record_balance_event(evs, cid, c1, "loan_writeoff",
                                                                deduction, t, t, NULL),
                               !.bank = record_bank_transaction(
                                            db.bank, "loan_reversal",
                                            _round_amount(Abs(loan.loan_amount)),
                                            "loan", loan_id, cid)]]
        adjusted(a) == stored([a.customer EXCEPT !.last_principal = @ + deduction], a.events)
    IN  adjusted(_adjust_projected_balance(customer, deduction, t, db.events, cid, TRUE))

delete_repayment(db, repayment_id, t) ==
    IF repayment_id \notin DOMAIN db.repayments
    THEN [ok |-> FALSE, err |-> "repayment_not_found", db |-> db]
    ELSE
    LET repayment == db.repayments[repayment_id]
        cid == repayment.customer_id
        customer == db.customers[cid]
        addition == Abs(repayment.repayment_amount)
        stored(c1, evs) ==
            [ok |-> TRUE, err |-> "",
             db |-> [db EXCEPT !.customers[cid] = c1,
                               !.repayments = Drop(@, repayment_id),
                               !.events = _record_balance_event(evs, cid, c1,
                                                                "repayment_reversal", addition,
                                                                t, t, NULL),
                               !.bank = record_bank_transaction(
                                            db.bank, "repayment_reversal",
                                            -_round_amount(Abs(repayment.repayment_amount)),
                                            "repayment", repayment_id, cid)]]
        adjusted(a) == stored([a.customer EXCEPT !.last_principal = @ + addition], a.events)
    IN  adjusted(_adjust_projected_balance(customer, addition, t, db.events, cid, TRUE))

\* payload: loan_id, projected_balance and next_compound_at are NULL when
\* the request leaves them out; adjust_amount defaults to 0
update_customer_balance(db, cid, loan_id, projected_balance, adjust_amount, next_compound_at, t) ==
    LET customer == db.customers[cid]
        previous_balance == customer.projected_balance
        requires_loan == projected_balance # NULL \/ Abs(adjust_amount) > 0
        loan_missing == loan_id # NULL /\ loan_id \notin DOMAIN db.loans
        foreign == loan_id # NULL /\ ~loan_missing /\ db.loans[loan_id].customer_id # cid
        loan_remaining == _loan_remaining_compounded_balance(db.repayments, loan_id,
                                                             db.loans[loan_id], NULL)
        target == Max(projected_balance, 0)
        delta == IF projected_balance # NULL
                 THEN target - customer.projected_balance
                 ELSE adjust_amount
        stored(c1, evs) ==
            [ok |-> TRUE, err |-> "",
             db |-> [db EXCEPT !.customers[cid] =
                                   IF next_compound_at # NULL
                                   THEN [c1 EXCEPT !.next_compound_at =
                                                       ensure_myt_datetime(next_compound_at)]
                                   ELSE c1,
                               !.events = evs]]
        adjusted(a) ==
            stored(a.customer,
                   _record_balance_event(a.events, cid, a.customer,
                                         IF projected_balance # NULL
                                         THEN "manual_override" ELSE "manual_adjust",
                                         delta, t, t, previous_balance))
    IN  IF loan_missing \/ foreign
        THEN [ok |-> FALSE, err |-> "loan_reference", db |-> db]
        ELSE IF requires_loan /\ loan_id = NULL
        THEN [ok |-> FALSE, err |-> "loan_required", db |-> db]
        ELSE IF requires_loan /\ loan_remaining <= 0
        THEN [ok |-> FALSE, err |-> "loan_settled", db |-> db]
        ELSE IF Abs(delta) > 0
        THEN adjusted(_adjust_projected_balance(customer, delta, t, db.events, cid, TRUE))
        ELSE stored(customer, db.events)

create_manual_bank_adjustment(db, amount, direction) ==
    LET signed_amount == _round_amount(IF direction = "deposit" THEN amount ELSE -amount)
        bk == record_bank_transaction(db.bank, IF direction = "deposit"
                                               THEN "manual_deposit" ELSE "manual_withdrawal",
                                      signed_amount, NoReference, NULL, NULL)
    IN  IF bk = db.bank
        THEN [ok |-> FALSE, err |-> "zero_amount", db |-> db]
        ELSE [ok |-> TRUE, err |-> "", db |-> [db EXCEPT !.bank = bk]]

\* balance_raw of get_summary: compounded loans minus repayments as stored
balance_raw(db, cid) ==
    LET total_loan == {l \in DOMAIN db.loans : db.loans[l].customer_id = cid}
        total_repayment == {r \in DOMAIN db.repayments : db.repayments[r].customer_id = cid}
        effective_loan_total ==
            SumOver([l \in total_loan |-> _initial_compounded_amount(db.loans[l].loan_amount)],
                    total_loan)
        repayment_amount ==
            SumOver([r \in total_repayment |-> db.repayments[r].repayment_amount],
                    total_repayment)
    IN  effective_loan_total - repayment_amount

SetMax(S) == CHOOSE x \in S : \A y \in S : y <= x

\* the loop of get_summary over list_customers (newest first)
RECURSIVE summary_loop(_, _, _)
summary_loop(db, todo, t) ==
    IF todo = {} THEN db
    ELSE LET cid == SetMax(todo)
             refreshed(r) ==
                 summary_loop([db EXCEPT !.customers[cid] = r.customer, !.events = r.events],
                              todo \ {cid}, t)
         IN  refreshed(_refresh_compounded_balance(db.customers[cid], balance_raw(db, cid), t,
                                                   db.events, cid, TRUE))

get_summary(db, t) == [ok |-> TRUE, err |-> "", db |-> summary_loop(db, DOMAIN db.customers, t)]

\* ----------------------------------------------------------------- timeline
\* ORDER BY event_time ASC, id ASC over the events of one customer
Before(e, f) == e.event_time < f.event_time \/ (e.event_time = f.event_time /\ e.id < f.id)

RECURSIVE OrderRows(_)
OrderRows(S) ==
    IF S = {} THEN <<>>
    ELSE LET first == CHOOSE e \in S : \A f \in S \ {e} : Before(e, f)
         IN  <<first>> \o OrderRows(S \ {first})

Timeline(evs, cid) == OrderRows({evs[i] : i \in {j \in 1..Len(evs) : evs[j].customer_id = cid}})

\* the baseline written without the query for existing events
_ensure_balance_event_baseline_unchecked(evs, cid, customer, t) ==
    LET balance == _round_amount(Max(customer.projected_balance, 0))
    IN  IF balance <= 0
        THEN evs
        ELSE Append(evs, [id |-> Len(evs) + 1,
                          customer_id |-> cid,
                          event_type |-> "baseline",
                          event_time |-> t,
                          change_amount |-> balance,
                          balance_after |-> balance,
                          previous_balance |-> NULL])

_ensure_balance_event_baseline(evs, cid, customer, t) ==
    LET balance == _round_amount(Max(customer.projected_balance, 0))
    IN  IF \E i \in 1..Len(evs) : evs[i].customer_id = cid
        THEN evs
        ELSE IF balance <= 0
        THEN evs
        ELSE Append(evs, [id |-> Len(evs) + 1,
                          customer_id |-> cid,
                          event_type |-> "baseline",
                          event_time |-> t,
                          change_amount |-> balance,
                          balance_after |-> balance,
                          previous_balance |-> NULL])

\* the response, and the db the baseline commit leaves
get_customer_balance_timeline(db, cid, t) ==
    LET customer == db.customers[cid]
        listed(evs) ==
            [ok |-> TRUE, err |-> "",
             db |-> [db EXCEPT !.events = evs],
             events |-> Timeline(evs, cid),
             projected_balance |-> _round_amount(Max(customer.projected_balance, 0)),
             next_compound_at |-> ensure_myt_datetime(customer.next_compound_at)]
    IN  listed(_ensure_balance_event_baseline(db.events, cid, customer, t))

\* ------------------------------------------------------------ state machine
Fresh == [projected_balance |-> 0, last_principal |-> 0, next_compound_at |-> NULL]

\* the row a call names and the amount it carries, NULL where it has none
Arg(id, amount) == [id |-> id, amount |-> amount]

\* what the last call was and what it returned
Last(op, r) == [op |-> op, ok |-> r.ok, err |-> r.err, cid |-> NULL, matched |-> FALSE,
                 changed |-> FALSE, calls |-> 0, prev |-> FALSE,
                 balance |-> 0, nca |-> NULL, t |-> now, arg |-> Arg(NULL, NULL),
                 done |-> <<>>, issues |-> {}]

InitLast == [op |-> "init", ok |-> TRUE, err |-> "", cid |-> NULL, matched |-> FALSE,
             changed |-> FALSE, calls |-> 0, prev |-> FALSE,
             balance |-> 0, nca |-> NULL, t |-> 0, arg |-> Arg(NULL, NULL), done |-> <<>>,
             issues |-> {}]

Dates == {now} \cup {d \in PastDates : d <= now}

\* requests served at the same time, each with a Session of its own
SessionIds == {1, 2}

\* a Session with no transaction begun
Closed == [pc |-> "closed", op |-> "none", arg |-> Arg(NULL, NULL), direction |-> "none",
           db |-> [customers |-> [c \in CustomerIds |-> Fresh], loans |-> <<>>,
                   repayments |-> <<>>, events |-> <<>>, bank |-> <<>>,
                   loan_seq |-> 0, repayment_seq |-> 0]]

\* a mutating call: counted against MaxOps when it is accepted
Commit(r, op, arg) ==
    /\ nops < MaxOps
    /\ nops' = IF r.ok THEN nops + 1 ELSE nops
    /\ customers' = r.db.customers
    /\ loans' = r.db.loans
    /\ repayments' = r.db.repayments
    /\ events' = r.db.events
    /\ bank' = r.db.bank
    /\ loan_seq' = r.db.loan_seq
    /\ repayment_seq' = r.db.repayment_seq
    /\ last' = [Last(op, r) EXCEPT !.arg = arg]
    /\ now' = now
    /\ sessions' = sessions

\* a read that may advance balances: not counted
Read(r, op) ==
    /\ customers' = r.db.customers
    /\ events' = r.db.events
    /\ last' = Last(op, r)
    /\ UNCHANGED <<loans, repayments, bank, loan_seq, repayment_seq, now, nops, sessions>>

Init ==
    /\ customers = [c \in CustomerIds |-> Fresh]
    /\ loans = <<>>
    /\ repayments = <<>>
    /\ events = <<>>
    /\ bank = <<>>
    /\ loan_seq = 0
    /\ repayment_seq = 0
    /\ now = 0
    /\ nops = 0
    /\ last = InitLast
    /\ sessions = [s \in SessionIds |-> Closed]

Tick ==
    \E d \in TickSteps :
        /\ now + d <= MaxNow
        /\ now' = now + d
        /\ last' = [Last("tick", [ok |-> TRUE, err |-> ""]) EXCEPT !.t = now + d]
        /\ UNCHANGED <<customers, loans, repayments, events, bank, loan_seq, repayment_seq, nops,
                       sessions>>

CreateLoan ==
    \E cid \in DOMAIN customers, amount \in LoanAmounts, date \in Dates :
        Commit(create_loan(DB, cid, amount, date, now), "create_loan", Arg(cid, amount))

CreateRepayment ==
    \E cid \in DOMAIN customers, loan_id \in DOMAIN loans,
       amount \in RepaymentAmounts, date \in Dates :
        Commit(create_repayment(DB, cid, loan_id, amount, date, now), "create_repayment",
               Arg(loan_id, amount))

UpdateLoan ==
    \E loan_id \in DOMAIN loans, amount \in LoanAmounts :
        Commit(update_loan(DB, loan_id, amount, now), "update_loan", Arg(loan_id, amount))

UpdateRepayment ==
    \E repayment_id \in DOMAIN repayments, amount \in {Abs(x) : x \in RepaymentAmounts} :
        Commit(update_repayment(DB, repayment_id, amount, now), "update_repayment",
               Arg(repayment_id, amount))

DeleteLoan ==
    \E loan_id \in DOMAIN loans :
        Commit(delete_loan(DB, loan_id, now), "delete_loan", Arg(loan_id, NULL))

DeleteRepayment ==
    \E repayment_id \in DOMAIN repayments :
        Commit(delete_repayment(DB, repayment_id, now), "delete_repayment",
               Arg(repayment_id, NULL))

UpdateCustomerBalance ==
    \E cid \in DOMAIN customers, loan_id \in DOMAIN loans \cup {NULL} :
        \/ \E target \in BalanceTargets :
              Commit(update_customer_balance(DB, cid, loan_id, target, 0, NULL, now),
                     "update_customer_balance", Arg(loan_id, target))
        \/ \E adjust \in AdjustAmounts :
              Commit(update_customer_balance(DB, cid, loan_id, NULL, adjust, NULL, now),
                     "update_customer_balance", Arg(loan_id, NULL))
        \/ \E nca \in NextCompoundInputs :
              Commit(update_customer_balance(DB, cid, loan_id, NULL, 0, nca, now),
                     "update_customer_balance", Arg(loan_id, NULL))

ManualBankAdjustment ==
    \E amount \in BankAmounts, direction \in {"deposit", "withdrawal"} :
        Commit(create_manual_bank_adjustment(DB, amount, direction),
               "create_manual_bank_adjustment", Arg(NULL, amount))

GetSummary == Read(get_summary(DB, now), "get_summary")

GetTimeline ==
    \E cid \in DOMAIN customers :
        Read(get_customer_balance_timeline(DB, cid, now), "get_customer_balance_timeline")

Next ==
    \/ Tick
    \/ CreateLoan
    \/ CreateRepayment
    \/ UpdateLoan
    \/ UpdateRepayment
    \/ DeleteLoan
    \/ DeleteRepayment
    \/ UpdateCustomerBalance
    \/ ManualBankAdjustment
    \/ GetSummary
    \/ GetTimeline

Spec == Init /\ [][Next]_vars

\* ------------------------------------------- the calculator on its own
\* balances, principals and schedules a stored customer row can hold
CalcBalances == {0, 1, 3, 10}
CalcPrincipals == {0, 10}
CalcSchedules == {NULL, 0, 20, 40}
CalcTickSteps == {10, 30}
ActualPrincipals == {-4, 0, 10}

InitCalc ==
    /\ customers \in [CustomerIds -> [projected_balance : CalcBalances,
                                      last_principal : CalcPrincipals,
                                      next_compound_at : CalcSchedules]]
    /\ loans = <<>>
    /\ repayments = <<>>
    /\ events = <<>>
    /\ bank = <<>>
    /\ loan_seq = 0
    /\ repayment_seq = 0
    /\ now = 0
    /\ nops = 0
    /\ last = InitLast
    /\ sessions = [s \in SessionIds |-> Closed]

\* consecutive calls of the same kind at the same now: 1, then 2
Calls(op, repeat) == IF last.op = op /\ last.t = now /\ repeat THEN 2 ELSE 1

\* the customer and the events a calculator call returned, written back
Calculated(op, cid, actual, matched, repeat, r) ==
    /\ customers' = [customers EXCEPT ![cid] = r.customer]
    /\ events' = r.events
    /\ last' = [op |-> op, ok |-> TRUE, err |-> "", cid |-> cid,
                matched |-> matched, changed |-> r.updated,
                calls |-> Calls(op, repeat),
                prev |-> (last.op = op /\ last.t = now /\ last.cid = cid /\ last.changed),
                balance |-> r.customer.projected_balance,
                nca |-> r.customer.next_compound_at, t |-> now,
                arg |-> Arg(cid, actual), done |-> <<>>,
                issues |-> {}]
    /\ UNCHANGED <<loans, repayments, bank, loan_seq, repayment_seq, now, nops, sessions>>

\* advance(customer, now): _apply_compound_growth with the caller's session
Advance ==
    \E cid \in DOMAIN customers :
        Calculated("advance", cid, NULL, FALSE, last.cid = cid,
                   _apply_compound_growth(customers[cid], now, events, cid, TRUE))

\* reconcile(customer, actualPrincipal, now): _refresh_compounded_balance
Reconcile ==
    \E cid \in DOMAIN customers :
        \E actual \in ActualPrincipals \cup {customers[cid].last_principal} :
            Calculated("reconcile", cid, actual, actual = customers[cid].last_principal,
                       last.cid = cid /\ last.matched
                           /\ actual = customers[cid].last_principal,
                       _refresh_compounded_balance(customers[cid], actual, now, events,
                                                   cid, TRUE))

CalcTick ==
    \E d \in CalcTickSteps :
        /\ now + d <= MaxNow
        /\ now' = now + d
        /\ last' = [Last("tick", [ok |-> TRUE, err |-> ""]) EXCEPT !.t = now + d]
        /\ UNCHANGED <<customers, loans, repayments, events, bank, loan_seq, repayment_seq, nops,
                       sessions>>

NextCalc ==
    \/ Advance
    \/ Reconcile
    \/ CalcTick

SpecCalc == InitCalc /\ [][NextCalc]_vars

\* ------------------------------------------- sessions running side by side
\* require_staff_context: the session's first query opens its transaction,
\* and its unlocked reads see the rows committed by then
Begin(s, op, arg, direction) ==
    /\ sessions[s].pc = "closed"
    /\ nops + Cardinality({x \in SessionIds : sessions[x].pc = "open"}) < MaxOps
    /\ sessions' = [sessions EXCEPT ![s] = [pc |-> "open", op |-> op, arg |-> arg,
                                             direction |-> direction, db |-> DB]]
    /\ UNCHANGED <<customers, loans, repayments, events, bank, loan_seq, repayment_seq,
                   now, last, nops>>

BeginManualAdjustment(s) ==
    \E amount \in BankAmounts, direction \in {"deposit", "withdrawal"} :
        Begin(s, "create_manual_bank_adjustment", Arg(NULL, amount), direction)

BeginCreateLoan(s) ==
    \E cid \in DOMAIN customers, amount \in LoanAmounts :
        Begin(s, "create_loan", Arg(cid, amount), "none")

BeginCreateRepayment(s) ==
    \E loan_id \in DOMAIN loans, amount \in RepaymentAmounts :
        Begin(s, "create_repayment", Arg(loan_id, amount), "none")

\* the rows a session added after the `base` rows it read, numbered by the
\* table as it stands when they are inserted
Inserted(rows, base, table) ==
    [i \in 1..(Len(rows) - base) |-> [rows[base + i] EXCEPT !.id = Len(table) + i]]

\* the columns a session changed, written over the row as it stands
Flushed(current, read, written) ==
    [f \in DOMAIN current |-> IF written[f] # read[f] THEN written[f] ELSE current[f]]

\* session.commit(): what the session wrote joins the committed rows
Committed(s, r) ==
    /\ nops' = IF r.ok THEN nops + 1 ELSE nops
    /\ customers' = [c \in DOMAIN customers |->
                        Flushed(customers[c], sessions[s].db.customers[c], r.db.customers[c])]
    /\ loans' = IF r.db.loan_seq > loan_seq
                THEN Put(loans, r.db.loan_seq, r.db.loans[r.db.loan_seq])
                ELSE loans
    /\ loan_seq' = r.db.loan_seq
    /\ repayments' = IF r.db.repayment_seq > repayment_seq
                     THEN Put(repayments, r.db.repayment_seq,
                              r.db.repayments[r.db.repayment_seq])
                     ELSE repayments
    /\ repayment_seq' = r.db.repayment_seq
    /\ events' = events \o Inserted(r.db.events, Len(sessions[s].db.events), events)
    /\ bank' = bank \o Inserted(r.db.bank, Len(sessions[s].db.bank), bank)
    /\ last' = [Last(sessions[s].op, r) EXCEPT
                    !.arg = sessions[s].arg,
                    !.done = IF r.ok
                             THEN Append(last.done, [op |-> sessions[s].op,
                                                     arg |-> sessions[s].arg,
                                                     direction |-> sessions[s].direction])
                             ELSE last.done]
    /\ sessions' = [sessions EXCEPT ![s] = Closed]
    /\ now' = now

\* the handler's body run on what the session read; new ids come from the
\* tables' counters as they stand
Handled(q, seen) ==
    IF q.op = "create_manual_bank_adjustment"
    THEN create_manual_bank_adjustment(seen, q.arg.amount, q.direction)
    ELSE IF q.op = "create_repayment"
    THEN create_repayment(seen, IF q.arg.id \in DOMAIN seen.loans
                                THEN seen.loans[q.arg.id].customer_id ELSE NULL,
                          q.arg.id, q.arg.amount, now, now)
    ELSE create_loan(seen, q.arg.id, q.arg.amount, now, now)

FinishSession(s) ==
    /\ sessions[s].pc = "open"
    /\ Committed(s, Handled(sessions[s],
                            [sessions[s].db EXCEPT !.loan_seq = loan_seq,
                                                   !.repayment_seq = repayment_seq]))

NextLedger ==
    \/ \E s \in SessionIds : BeginManualAdjustment(s)
    \/ \E s \in SessionIds : BeginCreateLoan(s)
    \/ \E s \in SessionIds : BeginCreateRepayment(s)
    \/ \E s \in SessionIds : FinishSession(s)

SpecLedger == Init /\ [][NextLedger]_vars

\* ------------------------------------- loans stored without a loan_code
\* _ensure_loan_code: a loan without a code is given one
_ensure_loan_code(db, loan_id) ==
    [db EXCEPT !.loans[loan_id].loan_code = IF @ = "" THEN GeneratedCode ELSE @]

\* the rows durable when update_loan reaches _ensure_loan_code on a loan
\* without a code and that commits: the customer, the event and the loan,
\* the bank transaction not yet
update_loan_code_commit(db, loan_id, new_amount, t) ==
    LET flushed(r) == [r.db EXCEPT !.bank = db.bank]
    IN  _ensure_loan_code(flushed(update_loan(db, loan_id, new_amount, t)), loan_id)

\* the rows durable when create_repayment reaches _loan_code_for on a loan
\* without a code and that commits: the customer as grown and deducted, the
\* repayment row, its event and its bank transaction not yet
create_repayment_code_commit(db, cid, loan_id, repayment_amount, repayment_date, t) ==
    LET flushed(r) ==
            [r.db EXCEPT !.repayments = db.repayments,
                         !.repayment_seq = db.repayment_seq,
                         !.bank = db.bank,
                         !.events = IF Len(@) > Len(db.events)
                                       /\ @[Len(@)].event_type = "repayment"
                                    THEN SubSeq(@, 1, Len(@) - 1)
                                    ELSE @]
    IN  _ensure_loan_code(flushed(create_repayment(db, cid, loan_id, repayment_amount,
                                                   repayment_date, t)), loan_id)

\* a loan created before loans had codes
InitLegacy ==
    LET legacy(r) ==
            /\ customers = r.db.customers
            /\ loans = [r.db.loans EXCEPT ![1].loan_code = ""]
            /\ events = r.db.events
            /\ bank = r.db.bank
            /\ loan_seq = r.db.loan_seq
    IN  /\ \E cid \in CustomerIds, amount \in LoanAmounts :
               legacy(create_loan(Closed.db, cid, amount, 0, 0))
        /\ repayments = <<>>
        /\ repayment_seq = 0
        /\ now = 0
        /\ nops = 0
        /\ last = InitLast
        /\ sessions = [s \in SessionIds |-> Closed]

\* the commit inside _ensure_loan_code: d is what it makes durable
CodeCommit(op, arg, d) ==
    /\ sessions[1].pc = "closed"
    /\ nops < MaxOps
    /\ customers' = d.customers
    /\ loans' = d.loans
    /\ repayments' = d.repayments
    /\ events' = d.events
    /\ bank' = d.bank
    /\ loan_seq' = d.loan_seq
    /\ repayment_seq' = d.repayment_seq
    /\ sessions' = [sessions EXCEPT ![1] = [pc |-> "code_committed", op |-> op, arg |-> arg,
                                             direction |-> "none", db |-> DB]]
    /\ last' = [Last("_ensure_loan_code", [ok |-> TRUE, err |-> ""]) EXCEPT !.arg = arg]
    /\ UNCHANGED <<now, nops>>

UpdateLegacyLoan ==
    \E loan_id \in DOMAIN loans, amount \in LoanAmounts :
        /\ loans[loan_id].loan_code = ""
        /\ amount # loans[loan_id].loan_amount
        /\ CodeCommit("update_loan", Arg(loan_id, amount),
                      update_loan_code_commit(DB, loan_id, amount, now))

RepayLegacyLoan ==
    \E loan_id \in DOMAIN loans, amount \in RepaymentAmounts :
        /\ loans[loan_id].loan_code = ""
        /\ _ensure_repayment_within_loan_balance(repayments, loan_id, loans[loan_id],
                                                 amount, NULL)
        /\ CodeCommit("create_repayment", Arg(loan_id, amount),
                      create_repayment_code_commit(DB, loans[loan_id].customer_id, loan_id,
                                                   amount, now, now))

\* the operation after the code's commit, up to its own commit
Resumed(q) ==
    IF q.op = "update_loan"
    THEN update_loan(q.db, q.arg.id, q.arg.amount, now)
    ELSE create_repayment(q.db, q.db.loans[q.arg.id].customer_id, q.arg.id, q.arg.amount,
                          now, now)

FinishLegacy ==
    LET finished(q, r, d) ==
            /\ nops' = nops + 1
            /\ customers' = d.customers
            /\ loans' = d.loans
            /\ repayments' = d.repayments
            /\ events' = d.events
            /\ bank' = d.bank
            /\ loan_seq' = d.loan_seq
            /\ repayment_seq' = d.repayment_seq
            /\ last' = [Last(q.op, r) EXCEPT !.arg = q.arg]
            /\ sessions' = [sessions EXCEPT ![1] = Closed]
            /\ now' = now
        resumed(q, r) == finished(q, r, _ensure_loan_code(r.db, q.arg.id))
    IN  /\ sessions[1].pc = "code_committed"
        /\ resumed(sessions[1], Resumed(sessions[1]))

\* the same operations on loans that have their code
Coded == \A s \in SessionIds : sessions[s].pc = "closed"

CodedUpdateLoan ==
    /\ Coded
    /\ \A loan_id \in DOMAIN loans : loans[loan_id].loan_code # ""
    /\ UpdateLoan

CodedCreateRepayment ==
    /\ Coded
    /\ \A loan_id \in DOMAIN loans : loans[loan_id].loan_code # ""
    /\ CreateRepayment

LegacyTick ==
    /\ Coded
    /\ Tick

NextLegacy ==
    \/ UpdateLegacyLoan
    \/ RepayLegacyLoan
    \/ FinishLegacy
    \/ CodedUpdateLoan
    \/ CodedCreateRepayment
    \/ LegacyTick

SpecLegacy == InitLegacy /\ [][NextLegacy]_vars

\* --------------- loans, repayments and manual bank adjustments on their own
NextRecords ==
    \/ CreateLoan
    \/ CreateRepayment
    \/ UpdateLoan
    \/ UpdateRepayment
    \/ DeleteLoan
    \/ DeleteRepayment
    \/ ManualBankAdjustment
    \/ Tick

SpecRecords == Init /\ [][NextRecords]_vars

\* --------------------------------------------------------- two customers
CrossCustomerIds == {1, 2}

InitCross ==
    /\ customers = [c \in CrossCustomerIds |-> Fresh]
    /\ loans = <<>>
    /\ repayments = <<>>
    /\ events = <<>>
    /\ bank = <<>>
    /\ loan_seq = 0
    /\ repayment_seq = 0
    /\ now = 0
    /\ nops = 0
    /\ last = InitLast
    /\ sessions = [s \in SessionIds |-> Closed]

NextCross ==
    \/ CreateLoan
    \/ CreateRepayment
    \/ Tick

SpecCross == InitCross /\ [][NextCross]_vars

\* ------------------------- customers stored with a balance and no events
BaselineBalances == {0, 10}

InitBaseline ==
    /\ customers \in {c \in [CustomerIds -> [projected_balance : BaselineBalances,
                                                last_principal : BaselineBalances,
                                                next_compound_at : {NULL, COMPOUND_INTERVAL}]] :
                          \A cid \in CustomerIds :
                              /\ c[cid].last_principal = c[cid].projected_balance
                              /\ c[cid].next_compound_at = NULL <=> c[cid].projected_balance = 0}
    /\ loans = <<>>
    /\ repayments = <<>>
    /\ events = <<>>
    /\ bank = <<>>
    /\ loan_seq = 0
    /\ repayment_seq = 0
    /\ now = 0
    /\ nops = 0
    /\ last = InitLast
    /\ sessions = [s \in SessionIds |-> Closed]

NextBaseline ==
    \/ GetTimeline
    \/ CreateLoan
    \/ CreateRepayment
    \/ Tick

SpecBaseline == InitBaseline /\ [][NextBaseline]_vars

\* ---------------------------------------------------------------- the audit
\* one cent, run_audit's default tolerance of 0.01
AuditTolerance == 1

AuditIssue(severity, category, entity, entity_id, message, expected, actual) ==
    [severity |-> severity, category |-> category, entity |-> entity,
     entity_id |-> entity_id, message |-> message, expected |-> expected, actual |-> actual]

\* the issues run_audit reports for one customer
audit_customer(db, cid) ==
    LET customer == db.customers[cid]
        loan_rows == {l \in DOMAIN db.loans : db.loans[l].customer_id = cid}
        repayment_rows == {r \in DOMAIN db.repayments : db.repayments[r].customer_id = cid}
        effective_loan_total ==
            SumOver([l \in loan_rows |->
                        _initial_compounded_amount(Max(db.loans[l].loan_amount, 0))],
                    loan_rows)
        repayment_total ==
            SumOver([r \in repayment_rows |-> Max(db.repayments[r].repayment_amount, 0)],
                    repayment_rows)
        raw_balance == _round_amount(Max(effective_loan_total - repayment_total, 0))
        last_principal == _round_amount(customer.last_principal)
        projected == _round_amount(Max(customer.projected_balance, 0))
        event_rows == Timeline(db.events, cid)
    IN  {AuditIssue("warning", "customer_balance", "customer", cid,
                    "last_principal deviates from recomputed balance",
                    raw_balance, last_principal) :
             x \in {y \in {1} : Abs(last_principal - raw_balance) > AuditTolerance}}
        \cup
        {AuditIssue("error", "customer_balance", "customer", cid,
                    "projected_balance is negative", NULL, projected) :
             x \in {y \in {1} : projected < -AuditTolerance}}
        \cup
        {AuditIssue("warning", "balance_events", "customer", cid,
                    "latest balance event drift from projected_balance",
                    _round_amount(event_rows[Len(event_rows)].balance_after), projected) :
             x \in {y \in {1} : /\ Len(event_rows) > 0
                                /\ Abs(_round_amount(event_rows[Len(event_rows)].balance_after)
                                       - projected) > AuditTolerance}}
        \cup
        {AuditIssue("error", "balance_events", "customer", cid,
                    "balance event recorded negative balance",
                    event_rows[i].id, event_rows[i].balance_after) :
             i \in {j \in 1..Len(event_rows) : event_rows[j].balance_after < -AuditTolerance}}

\* the issues run_audit reports for the loan and repayment rows
audit_rows(db) ==
    {AuditIssue("error", "loan_code", "loan", l, "loan_code is missing", NULL, NULL) :
         l \in {k \in DOMAIN db.loans : db.loans[k].loan_code = ""}}
    \cup
    {AuditIssue("error", "loan_amount", "loan", l, "loan_amount cannot be negative",
                NULL, db.loans[l].loan_amount) :
         l \in {k \in DOMAIN db.loans : db.loans[k].loan_amount < 0}}
    \cup
    {AuditIssue("error", "repayment_amount", "repayment", r,
                "repayment_amount must be positive", NULL, db.repayments[r].repayment_amount) :
         r \in {k \in DOMAIN db.repayments : db.repayments[k].repayment_amount <= 0}}
    \cup
    {AuditIssue("error", "repayment_reference", "repayment", r,
                "loan_id does not point to an existing loan", NULL, db.repayments[r].loan_id) :
         r \in {k \in DOMAIN db.repayments : /\ db.repayments[k].loan_id # NULL
                                             /\ db.repayments[k].loan_id \notin DOMAIN db.loans}}
    \cup
    {AuditIssue("error", "repayment_reference", "repayment", r,
                "repayment loan_id/customer_id mismatch",
                db.repayments[r].customer_id, db.loans[db.repayments[r].loan_id].customer_id) :
         r \in {k \in DOMAIN db.repayments :
                    /\ db.repayments[k].loan_id \in DOMAIN db.loans
                    /\ db.loans[db.repayments[k].loan_id].customer_id
                           # db.repayments[k].customer_id}}

run_audit(db) == UNION {audit_customer(db, cid) : cid \in DOMAIN db.customers} \cup audit_rows(db)

\* rows the audit can find stored, sound or not
AuditBalances == {-5, -2, 0, 6}
AuditPrincipals == {0, 6, 12}
AuditLoanAmounts == {-5, 5, 10}
AuditRepaymentAmounts == {-6, 6}

InitAudit ==
    /\ customers \in [CustomerIds -> [projected_balance : AuditBalances,
                                      last_principal : AuditPrincipals,
                                      next_compound_at : {NULL, COMPOUND_INTERVAL}]]
    /\ loans \in {<<>>} \cup {<<[customer_id |-> cid, loan_amount |-> amount, loan_date |-> 0,
                                 loan_code |-> GeneratedCode]>> :
                                  cid \in CustomerIds, amount \in AuditLoanAmounts}
    /\ repayments \in {<<>>} \cup {<<[customer_id |-> cid, loan_id |-> loan_id,
                                      repayment_amount |-> amount, repayment_date |-> 0]>> :
                                       cid \in CustomerIds, loan_id \in {1, NULL},
                                       amount \in AuditRepaymentAmounts}
    /\ events = <<>>
    /\ bank = <<>>
    /\ loan_seq = Len(loans)
    /\ repayment_seq = Len(repayments)
    /\ now = 0
    /\ nops = 0
    /\ last = InitLast
    /\ sessions = [s \in SessionIds |-> Closed]

RunAudit ==
    /\ last' = [Last("run_audit", [ok |-> TRUE, err |-> ""]) EXCEPT !.issues = run_audit(DB)]
    /\ UNCHANGED <<customers, loans, repayments, events, bank, loan_seq, repayment_seq, now,
                   nops, sessions>>

NextAudit == RunAudit

SpecAudit == InitAudit /\ [][NextAudit]_vars

\* ------------------------------------------------------------------ claims
\* one cent, the audit tolerance of 0.01
Tolerance == 1

\* C1: every customer's projected_balance is >= 0 in every reachable state
C1_BalanceNonNegative ==
    \A c \in DOMAIN customers : customers[c].projected_balance >= 0

\* a manual adjustment larger than the balance it met has been floored at 0
C1_Witness ==
    \E i \in 1..Len(events) :
        /\ events[i].event_type = "manual_adjust"
        /\ events[i].previous_balance > 0
        /\ events[i].previous_balance + events[i].change_amount < 0
        /\ events[i].balance_after = 0
        /\ customers[events[i].customer_id].projected_balance = 0

\* C2: next_compound_at is null if and only if projected_balance is 0
C2_NextCompoundIffPositive ==
    \A c \in DOMAIN customers :
        (customers[c].next_compound_at = NULL) <=> (customers[c].projected_balance = 0)

\* C3: in (event_time, id) order each event's balance_after is the preceding
\* event's balance_after plus its own change_amount, within 0.01
C3_EventChain ==
    \A c \in DOMAIN customers :
        LET tl == Timeline(events, c)
        IN  \A i \in 2..Len(tl) :
                Abs(tl[i].balance_after - (tl[i-1].balance_after + tl[i].change_amount))
                    <= Tolerance

\* C4: the balance_after of the last event in (event_time, id) order equals
\* the customer's projected_balance, within 0.01
C4_LastEventMatchesBalance ==
    \A c \in DOMAIN customers :
        LET tl == Timeline(events, c)
        IN  Len(tl) > 0 =>
                Abs(tl[Len(tl)].balance_after - customers[c].projected_balance) <= Tolerance

\* C5: the repayments recorded against a loan never add up to more than
\* compounded(loan.amount) = round(loan.amount * 1.20, 2)
C5_RepaymentsWithinLoan ==
    \A l \in DOMAIN loans :
        LET rows == {r \in DOMAIN repayments : repayments[r].loan_id = l}
        IN  SumOver([r \in rows |-> repayments[r].repayment_amount], rows)
                <= RoundDiv(loans[l].loan_amount * 120, 100)

\* C6: the Nth bank transaction's balance_after is the sum of amount over
\* rows 1..N in insertion order
C6_LedgerRunningSum ==
    \A n \in 1..Len(bank) :
        bank[n].balance_after = SumOver([i \in 1..n |-> bank[i].amount], 1..n)

\* three rows of both signs, a manual adjustment among them
C6_Witness ==
    /\ Len(bank) >= 3
    /\ \E i, j, k \in 1..Len(bank) :
          /\ bank[i].amount < 0
          /\ bank[j].amount > 0
          /\ bank[k].reference_type = NoReference

\* C7: a repayment create or amount edit the loan guard rejects leaves the
\* customer, the balance events, the bank ledger and the repayments as they were
C7_RejectedRepaymentChangesNothing ==
    [][(last'.op \in {"create_repayment", "update_repayment"} /\ last'.err = "guard")
          => UNCHANGED <<customers, events, bank, repayments, loans>>]_vars

\* an amount edit was rejected by the guard on a customer that owes money
C7_Witness ==
    /\ last.op = "update_repayment"
    /\ last.err = "guard"
    /\ Len(events) >= 2
    /\ Len(bank) >= 2
    /\ \E c \in DOMAIN customers : customers[c].projected_balance > 0

\* C8: a second advance at the same now returns changed = FALSE, adds no
\* balance event and leaves the customer as the first call left it
C8_AdvanceIdempotent ==
    [][(last'.op = "advance" /\ last'.calls = 2)
          => (~last'.changed /\ events' = events /\ customers' = customers)]_vars

\* the second of two calls, the first of which crossed a boundary
C8_Witness ==
    /\ last.op = "advance"
    /\ last.calls = 2
    /\ last.prev
    /\ Len(events) > 0

\* C9: two reconciles in a row with actualPrincipal = last_principal and the
\* same now return the same balance and next_compound_at, the second adding
\* no balance event
C9_ReconcileRoundTrip ==
    [][(last'.op = "reconcile" /\ last'.calls = 2)
          => (last'.balance = last.balance /\ last'.nca = last.nca /\ events' = events)]_vars

\* the second matched call, after a first one that compounded a balance
C9_Witness ==
    /\ last.op = "reconcile"
    /\ last.calls = 2
    /\ last.prev
    /\ last.balance > 0
    /\ customers[last.cid].last_principal # 0
    /\ Len(events) > 0

\* x -> round(x * 1.20, 2), k times
RECURSIVE Compounded(_, _)
Compounded(x, k) == IF k = 0 THEN x ELSE Compounded((x * 120 + 50) \div 100, k - 1)

\* C10: advance on a positive balance with next_compound_at = t0 <= now leaves
\* next_compound_at = t0 + k * 30 days for the smallest k >= 1 with
\* t0 + k * 30 days > now, and the balance compounded k times
C10_AdvanceAnchored ==
    [][(/\ last'.op = "advance"
        /\ customers[last'.cid].projected_balance > 0
        /\ customers[last'.cid].next_compound_at # NULL
        /\ customers[last'.cid].next_compound_at <= now)
          => LET t0 == customers[last'.cid].next_compound_at
                 k == ((now - t0) \div 30) + 1
             IN  /\ customers'[last'.cid].next_compound_at = t0 + k * 30
                 /\ customers'[last'.cid].projected_balance
                        = Compounded(customers[last'.cid].projected_balance, k)]_vars

\* an advance that crossed two boundaries, now off the 30-day grid of t0
C10_Witness ==
    /\ last.op = "advance"
    /\ last.changed
    /\ \E i, j \in 1..Len(events) :
          /\ i # j
          /\ events[i].event_type = "compound_growth"
          /\ events[j].event_type = "compound_growth"
          /\ events[i].customer_id = last.cid
          /\ events[j].customer_id = last.cid
    /\ last.nca - now < 30
    /\ last.nca - now > 0

\* C11: an advance run with a session appends exactly one compound_growth
\* event for every period boundary it crosses, whatever the positive starting
\* balance: the i-th has change_amount = balance after period i minus balance
\* before it, and balance_after = the balance after period i
C11_OneGrowthEventPerPeriod ==
    [][(/\ last'.op = "advance"
        /\ customers[last'.cid].projected_balance > 0
        /\ customers[last'.cid].next_compound_at # NULL
        /\ customers[last'.cid].next_compound_at <= now)
          => LET t0 == customers[last'.cid].next_compound_at
                 b == customers[last'.cid].projected_balance
                 k == ((now - t0) \div COMPOUND_INTERVAL) + 1
             IN  /\ Len(events') = Len(events) + k
                 /\ \A i \in 1..k :
                       /\ events'[Len(events) + i].event_type = "compound_growth"
                       /\ events'[Len(events) + i].customer_id = last'.cid
                       /\ events'[Len(events) + i].change_amount
                              = Compounded(b, i) - Compounded(b, i - 1)
                       /\ events'[Len(events) + i].balance_after = Compounded(b, i)]_vars

\* C12 as stated: a loan of amount A created for a customer with zero balance
\* makes projected_balance = compounded(A) and appends exactly one
\* loan_disbursement event whose change_amount is the markup compounded(A) - A
C12_LoanEventCarriesMarkup ==
    [][(/\ last'.op = "create_loan"
        /\ last'.ok
        /\ customers[last'.arg.id].projected_balance = 0)
          => LET cid == last'.arg.id
                 A == last'.arg.amount
                 C == RoundDiv(A * 120, 100)
             IN  /\ customers'[cid].projected_balance = C
                 /\ Len(events') = Len(events) + 1
                 /\ events'[Len(events')].event_type = "loan_disbursement"
                 /\ events'[Len(events')].customer_id = cid
                 /\ events'[Len(events')].change_amount = C - A]_vars

\* C12 amended: a loan of amount A > 0 created for a customer with zero
\* balance makes projected_balance = compounded(A) and appends exactly one
\* loan_disbursement event whose change_amount and balance_after are
\* compounded(A), the whole compounded liability
C12_LoanEventCarriesCompounded ==
    [][(/\ last'.op = "create_loan"
        /\ last'.ok
        /\ last'.arg.amount > 0
        /\ customers[last'.arg.id].projected_balance = 0)
          => LET cid == last'.arg.id
                 A == last'.arg.amount
                 C == RoundDiv(A * 120, 100)
             IN  /\ customers'[cid].projected_balance = C
                 /\ Len(events') = Len(events) + 1
                 /\ events'[Len(events')].event_type = "loan_disbursement"
                 /\ events'[Len(events')].customer_id = cid
                 /\ events'[Len(events')].change_amount = C
                 /\ events'[Len(events')].balance_after = C]_vars

\* a loan of 0.10 has just been created for a customer that owed nothing
C12_Witness ==
    /\ last.op = "create_loan"
    /\ last.ok
    /\ last.arg.amount = 10
    /\ Len(events) = 1
    /\ events[1].event_type = "loan_disbursement"
    /\ customers[last.arg.id].projected_balance = 12
    /\ Len(bank) = 1

C14_DeleteLoanRollsBack ==
    [][(/\ last'.op = "delete_loan"
        /\ last'.ok
        /\ LET loan == loans[last'.arg.id]
               customer == customers[loan.customer_id]
           IN  /\ customer.projected_balance = RoundDiv(loan.loan_amount * 120, 100)
               /\ (customer.next_compound_at = NULL \/ customer.next_compound_at > now))
          => LET loan == loans[last'.arg.id]
                 cid == loan.customer_id
                 C == RoundDiv(loan.loan_amount * 120, 100)
             IN  /\ customers'[cid].projected_balance = 0
                 /\ customers'[cid].next_compound_at = NULL
                 /\ Len(events') = Len(events) + 1
                 /\ events'[Len(events')].event_type = "loan_writeoff"
                 /\ events'[Len(events')].customer_id = cid
                 /\ events'[Len(events')].change_amount = -C
                 /\ events'[Len(events')].balance_after = 0]_vars

\* the only loan of a customer, of 0.10, has just been deleted
C14_Witness ==
    /\ last.op = "delete_loan"
    /\ last.ok
    /\ Len(events) = 2
    /\ events[1].event_type = "loan_disbursement"
    /\ events[1].balance_after = 12
    /\ events[2].event_type = "loan_writeoff"
    /\ events[2].change_amount = -12
    /\ customers[events[2].customer_id].projected_balance = 0
    /\ customers[events[2].customer_id].next_compound_at = NULL
    /\ loans = <<>>

\* the event types of loan and repayment create, amount edit and delete
RecordEventTypes ==
    {"loan_disbursement", "repayment", "loan_adjustment", "loan_writeoff",
     "repayment_adjustment", "repayment_reversal"}

\* C15: while no compounding boundary has been reached (the clock still at
\* its start) and no manual balance adjustment has been made, after any loan
\* and repayment creates, amount edits and deletes a customer's
\* projected_balance is max(0, sum of compounded(loan.amount) over its loans
\* minus sum of repayment_amount over its repayments)
C15_BalanceMatchesRecords ==
    \A c \in DOMAIN customers :
        (/\ now = 0
         /\ \A i \in 1..Len(events) :
               events[i].customer_id = c => events[i].event_type \in RecordEventTypes)
          => LET ls == {l \in DOMAIN loans : loans[l].customer_id = c}
                 rs == {r \in DOMAIN repayments : repayments[r].customer_id = c}
             IN  customers[c].projected_balance
                    = Max(0, SumOver([l \in ls |-> RoundDiv(loans[l].loan_amount * 120, 100)], ls)
                             - SumOver([r \in rs |-> repayments[r].repayment_amount], rs))

\* C16: update_customer_balance called with projected_balance = T >= 0 and a
\* loan of the customer whose remaining balance is > 0 leaves the customer's
\* projected_balance equal to T, whatever the balance and next_compound_at
\* were before
C16_OverrideReachesTarget ==
    [][(/\ last'.op = "update_customer_balance"
        /\ last'.ok
        /\ last'.arg.amount # NULL)
          => customers'[loans[last'.arg.id].customer_id].projected_balance
                = last'.arg.amount]_vars

\* C17: reconcile(customer, actual, now) with actual different from
\* last_principal first advances the balance, then changes projected_balance
\* by actual - last_principal, floored at 0, and sets last_principal = actual,
\* also for a negative actual; with actual = last_principal it only advances
\* and leaves last_principal as it was
C17_ReconcileAppliesDifference ==
    [][(last'.op = "reconcile")
          => LET cid == last'.cid
                 actual == last'.arg.amount
                 recorded == customers[cid].last_principal
                 advanced == _apply_compound_growth(customers[cid], now, events, cid, TRUE)
             IN  IF actual # recorded
                 THEN /\ customers'[cid].projected_balance
                            = Max(advanced.customer.projected_balance + (actual - recorded), 0)
                      /\ customers'[cid].last_principal = actual
                      /\ events' = advanced.events
                 ELSE /\ customers'[cid] = advanced.customer
                      /\ customers'[cid].last_principal = recorded
                      /\ events' = advanced.events]_vars

\* a reconcile with a negative actual principal has advanced a balance over
\* a boundary and then lowered it without emptying it
C17_Witness ==
    /\ last.op = "reconcile"
    /\ ~last.matched
    /\ last.arg.amount < 0
    /\ customers[last.cid].last_principal = last.arg.amount
    /\ customers[last.cid].projected_balance > 0
    /\ \E i \in 1..Len(events) :
          /\ events[i].event_type = "compound_growth"
          /\ events[i].balance_after > customers[last.cid].projected_balance
          /\ events[i].event_time <= now
          /\ events[i].id = Len(events)

\* C18: an edit of a repayment's amount to a different value n, the loan of
\* the repayment existing, is accepted if and only if n <= allowed and not
\* (allowed <= 0 and n > 0), where allowed = max(0, compounded(loan.amount)
\* - sum of |amount| over the other repayments of the loan), the edited
\* repayment itself left out of the sum
C18_EditAcceptedIffWithinLoan ==
    [][(/\ last'.op = "update_repayment"
        /\ last'.arg.id \in DOMAIN repayments
        /\ repayments[last'.arg.id].loan_id \in DOMAIN loans
        /\ Abs(last'.arg.amount) # Abs(repayments[last'.arg.id].repayment_amount))
          => LET n == last'.arg.amount
                 l == repayments[last'.arg.id].loan_id
                 others == {r \in DOMAIN repayments :
                               repayments[r].loan_id = l /\ r # last'.arg.id}
                 allowed == Max(0, RoundDiv(loans[l].loan_amount * 120, 100)
                                   - SumOver([r \in others |->
                                                 Abs(repayments[r].repayment_amount)], others))
             IN  last'.ok <=> (n - allowed <= 0 /\ ~(allowed <= 0 /\ n > 0))]_vars

\* a repayment of 0.06 on a loan with ceiling 0.12 has been raised to 0.12:
\* within the ceiling only because its old amount is left out of the sum
C18_Witness ==
    /\ last.op = "update_repayment"
    /\ last.ok
    /\ last.arg.amount = 12
    /\ repayments[last.arg.id].repayment_amount = 12
    /\ loans[repayments[last.arg.id].loan_id].loan_amount = 10
    /\ \E i \in 1..Len(events) :
          /\ events[i].event_type = "repayment_adjustment"
          /\ events[i].change_amount = -6

\* C19: every repayment event records a previous_balance, the customer's
\* projected balance just before the repayment was applied, that is >= the
\* repayment amount
C19_RepaymentWithinBalance ==
    \A i \in 1..Len(events) :
        events[i].event_type = "repayment"
            => events[i].previous_balance >= Abs(events[i].change_amount)

\* C20: when ledger appends run in concurrent sessions, the Nth row's
\* balance_after equals the sum of the amounts of rows 1..N
C20_ConcurrentAppendsSerialized ==
    \A n \in 1..Len(bank) :
        bank[n].balance_after = SumOver([i \in 1..n |-> bank[i].amount], 1..n)

\* the orders in which n calls can run one after another
Perms(n) == {p \in [1..n -> 1..n] : \A i, j \in 1..n : p[i] = p[j] => i = j}

\* the committed calls run one after another in the order p, each on the
\* rows the one before it left
RECURSIVE SerialRun(_, _, _)
SerialRun(p, k, r) ==
    IF k > Len(p) \/ ~r.ok
    THEN r
    ELSE SerialRun(p, k + 1, Handled(last.done[p[k]], r.db))

C22_OneCommitPerOperation ==
    [][(customers' # customers \/ events' # events \/ bank' # bank)
          => (events' # events /\ bank' # bank)]_vars

\* C23: no step modifies or deletes an existing balance event or bank
\* transaction: the rows present before a step are unchanged after it and
\* rows are only added, delete_loan and delete_repayment included
C23_LedgersAppendOnly ==
    [][/\ Len(events') >= Len(events)
       /\ SubSeq(events', 1, Len(events)) = events
       /\ Len(bank') >= Len(bank)
       /\ SubSeq(bank', 1, Len(bank)) = bank]_vars

C23_Witness ==
    /\ last.op \in {"delete_loan", "delete_repayment"}
    /\ last.ok
    /\ Len(events) >= 3
    /\ Len(bank) >= 3

\* C24: for every customer whose stored projected_balance is negative (below
\* -tolerance), run_audit reports an error in category customer_balance for
\* that customer
C24_NegativeBalanceReported ==
    last.op = "run_audit"
        => \A cid \in DOMAIN customers :
               customers[cid].projected_balance < -Tolerance
                   => \E issue \in last.issues :
                          /\ issue.severity = "error"
                          /\ issue.category = "customer_balance"
                          /\ issue.entity_id = cid

\* expectedBalance = max(0, sum of compounded(loan.amount) - sum of |repayment.amount|)
expectedBalance(cid) ==
    LET loan_rows == {l \in DOMAIN loans : loans[l].customer_id = cid}
        repayment_rows == {r \in DOMAIN repayments : repayments[r].customer_id = cid}
    IN  Max(0, SumOver([l \in loan_rows |-> Compounded(loans[l].loan_amount, 1)], loan_rows)
               - SumOver([r \in repayment_rows |-> Abs(repayments[r].repayment_amount)],
                         repayment_rows))

\* C25: run_audit reports a customer_balance warning for a customer exactly
\* when |last_principal - expectedBalance| > tolerance, with details
\* expected = expectedBalance and actual = last_principal
C25_WarningIffDeviation ==
    last.op = "run_audit"
        => \A cid \in DOMAIN customers :
               LET warnings == {issue \in last.issues : /\ issue.severity = "warning"
                                                        /\ issue.category = "customer_balance"
                                                        /\ issue.entity_id = cid}
               IN  /\ warnings # {}
                      <=> Abs(customers[cid].last_principal - expectedBalance(cid))
                              > Tolerance
                   /\ \A issue \in warnings :
                          /\ issue.expected = expectedBalance(cid)
                          /\ issue.actual = customers[cid].last_principal

\* C26: a baseline event is added only for a customer with no events and a
\* positive projected_balance, with change_amount = balance_after = that
\* balance, and after any number of timeline reads interleaved with other
\* operations a customer has at most one baseline event
C26_BaselineOnce ==
    [][/\ \A i \in (Len(events) + 1)..Len(events') :
              events'[i].event_type = "baseline"
                  => /\ \A j \in 1..Len(events) :
                            events[j].customer_id # events'[i].customer_id
                     /\ customers[events'[i].customer_id].projected_balance > 0
                     /\ events'[i].change_amount
                            = customers[events'[i].customer_id].projected_balance
                     /\ events'[i].balance_after = events'[i].change_amount
       /\ \A cid \in DOMAIN customers :
              Cardinality({i \in 1..Len(events') :
                               /\ events'[i].customer_id = cid
                               /\ events'[i].event_type = "baseline"}) <= 1]_vars

C26_Witness ==
    /\ last.op = "get_customer_balance_timeline"
    /\ Len(events) >= 2
    /\ events[1].event_type = "baseline"
    /\ events[Len(events)].event_type # "baseline"

\* C27: after any sequence of create, update and delete calls on loans and
\* repayments, last_principal equals the value get_summary recomputes (sum of
\* compounded(loan.amount) minus sum of repayment_amount over the customer's
\* rows), so a summary read reconciles with a zero delta
C27_PrincipalMatchesRows ==
    \A cid \in DOMAIN customers : customers[cid].last_principal = balance_raw(DB, cid)

\* C28: the bank ledger balance equals the sum of the signed manual
\* adjustments plus the sum of repayment_amount over the existing repayments
\* minus the sum of loan_amount over the existing loans
C28_CashConserved ==
    LET manual == {i \in 1..Len(bank) :
                       bank[i].transaction_type \in {"manual_deposit", "manual_withdrawal"}}
    IN  get_bank_balance(bank)
            = SumOver([i \in manual |-> bank[i].amount], manual)
              + SumOver([r \in DOMAIN repayments |-> repayments[r].repayment_amount],
                        DOMAIN repayments)
              - SumOver([l \in DOMAIN loans |-> loans[l].loan_amount], DOMAIN loans)

\* C29: in every state reached through the core operations, delete_loan on a
\* loan with repayments included, every repayment with a loan_id refers to an
\* existing loan, and run_audit reports no repayment_reference error for a
\* missing loan
C29_RepaymentsReferToLoans ==
    /\ \A r \in DOMAIN repayments :
           repayments[r].loan_id # NULL => repayments[r].loan_id \in DOMAIN loans
    /\ \A issue \in audit_rows(DB) :
           ~(/\ issue.category = "repayment_reference"
             /\ issue.message = "loan_id does not point to an existing loan")

\* C30: every repayment create_repayment accepts refers to a loan of the
\* repayment's own customer: a repayment for customer X against a loan of
\* customer Y is rejected and does not reduce X's projected_balance
C30_RepaymentOnOwnLoan ==
    [][\A r \in DOMAIN repayments' \ DOMAIN repayments :
           repayments'[r].loan_id \in DOMAIN loans
               => loans[repayments'[r].loan_id].customer_id = repayments'[r].customer_id]_vars

====
